---- MODULE Spec2Model ----
(***************************************************************************)
(* Model of pyrogram/types/messages_and_media/reaction.py: the mapping     *)
(* between raw (wire) reaction objects and the Reaction, ReactionType and  *)
(* ReactionCount domain objects.                                           *)
(*                                                                         *)
(* A Python value is modelled as a sequence of length 0 or 1: <<>> is      *)
(* None, <<v>> is the value v.  An object is a record of its attributes    *)
(* plus "cls", its class.  A call's outcome is a record: either a return   *)
(* with a value or a raise with the exception's class name.                *)
(***************************************************************************)
EXTENDS Integers, Sequences, FiniteSets, TLC

VARIABLES op, arg, result

vars == <<op, arg, result>>

\* ------------------------------------------------------------------ bounds
MaxCount == 2
MaxOrder == 2
MaxId == 2

\* ---------------------------------------------------------- Python values
None == <<>>
Some(v) == <<v>>

Return(v) == [kind |-> "return", exc |-> "", value |-> v]
Raise(e) == [kind |-> "raise", exc |-> e, value |-> None]

\* ------------------------------------------------------- raw (wire) types
RawReactionEmpty == [tag |-> "ReactionEmpty"]
RawReactionEmoji(emoticon) == [tag |-> "ReactionEmoji", emoticon |-> emoticon]
RawReactionCustomEmoji(document_id) ==
    [tag |-> "ReactionCustomEmoji", document_id |-> document_id]
RawReactionPaid == [tag |-> "ReactionPaid"]
\* a constructor of raw.base.Reaction this file does not know
RawReactionOther == [tag |-> "ReactionOther"]
RawReactionCount(reaction, count, chosen_order) ==
    [tag |-> "ReactionCount", reaction |-> reaction, count |-> count,
     chosen_order |-> chosen_order]

\* ---------------------------------------------------------- constructors
\* Reaction.__init__: is_paid is accepted and dropped
Reaction_init(type, count, chosen_order) ==
    [cls |-> "Reaction", type |-> type, count |-> count,
     chosen_order |-> chosen_order]

\* ReactionType.__init__, reached from cls (the class being instantiated)
ReactionType_init(cls, type, emoji, custom_emoji_id) ==
    [cls |-> cls, type |-> type, emoji |-> emoji,
     custom_emoji_id |-> custom_emoji_id]

\* Faulty variant: the emoji is stored in both payload attributes.
ReactionTypeEmoji_init_BothPayloads(emoji) ==
    ReactionType_init("ReactionTypeEmoji", Some("emoji"), emoji, emoji)

ReactionTypeEmoji_init(emoji) ==
    ReactionType_init("ReactionTypeEmoji", Some("emoji"), emoji, None)

\* Faulty variant: the id is narrowed to 16 bits when stored.
ReactionTypeCustomEmoji_init_Narrowed(custom_emoji_id) ==
    ReactionType_init("ReactionTypeCustomEmoji", Some("custom_emoji"), None,
                      IF custom_emoji_id = None THEN None
                      ELSE Some(custom_emoji_id[1] % 65536))

ReactionTypeCustomEmoji_init(custom_emoji_id) ==
    ReactionType_init("ReactionTypeCustomEmoji", Some("custom_emoji"), None,
                      custom_emoji_id)

ReactionTypePaid_init ==
    ReactionType_init("ReactionTypePaid", Some("paid"), None, None)

ReactionCount_init(type, total_count, chosen_order) ==
    [cls |-> "ReactionCount", type |-> type, total_count |-> total_count,
     chosen_order |-> chosen_order]

\* The names bound at module level: the imports and the class statements.
ModuleGlobals ==
    {"Optional", "pyrogram", "raw", "Object", "Reaction", "ReactionType",
     "ReactionTypeEmoji", "ReactionTypeCustomEmoji", "ReactionTypePaid",
     "ReactionCount"}

\* Evaluating the call expression name(payload) inside a function of the
\* module: the name is looked up in the module's globals (NameError when it
\* is not bound there), then the class is instantiated.
Instantiate(name, payload) ==
    IF name \notin ModuleGlobals THEN Raise("NameError")
    ELSE CASE name = "ReactionTypeEmoji" ->
                Return(Some(ReactionTypeEmoji_init(payload)))
           [] name = "ReactionTypeCustomEmoji" ->
                Return(Some(ReactionTypeCustomEmoji_init(payload)))
           [] name = "ReactionTypePaid" ->
                Return(Some(ReactionTypePaid_init))
           [] OTHER -> Raise("TypeError")

\* ------------------------------------------------------- Reaction._parse
\* Reaction(client=client, type=<the instantiated type>)
ReactionOf(t) ==
    IF t.kind = "raise" THEN t
    ELSE Return(Some(Reaction_init(t.value, None, None)))

Reaction_parse(reaction) ==
    IF reaction.tag = "ReactionEmoji"
    THEN ReactionOf(Instantiate("ReactionEmoji", reaction.emoticon))
    ELSE IF reaction.tag = "ReactionCustomEmoji"
    THEN ReactionOf(Instantiate("ReactionTypeCustomEmoji", reaction.document_id))
    ELSE IF reaction.tag = "ReactionPaid"
    THEN ReactionOf(Instantiate("ReactionTypePaid", None))
    ELSE Return(None)

\* ------------------------------------------------- Reaction._parse_count
Reaction_parse_count(reaction_count) ==
    LET reaction == Reaction_parse(reaction_count.reaction) IN
    IF reaction.kind = "raise" THEN reaction
    ELSE IF reaction.value = None THEN Raise("AttributeError")
    ELSE Return(Some([reaction.value[1] EXCEPT
                        !.count = reaction_count.count,
                        !.chosen_order = reaction_count.chosen_order]))

\* Faulty variant: a tag that is not known raises instead of falling through.
ReactionType_parse_Strict(update) ==
    IF update.tag = "ReactionEmpty"
    THEN Return(None)
    ELSE IF update.tag = "ReactionEmoji"
    THEN Instantiate("ReactionTypeEmoji", update.emoticon)
    ELSE IF update.tag = "ReactionCustomEmoji"
    THEN Instantiate("ReactionTypeCustomEmoji", update.document_id)
    ELSE IF update.tag = "ReactionPaid"
    THEN Instantiate("ReactionTypePaid", None)
    ELSE Raise("ValueError")

\* --------------------------------------------------- ReactionType._parse
ReactionType_parse(update) ==
    IF update.tag = "ReactionEmpty"
    THEN Return(None)
    ELSE IF update.tag = "ReactionEmoji"
    THEN Instantiate("ReactionTypeEmoji", update.emoticon)
    ELSE IF update.tag = "ReactionCustomEmoji"
    THEN Instantiate("ReactionTypeCustomEmoji", update.document_id)
    ELSE IF update.tag = "ReactionPaid"
    THEN Instantiate("ReactionTypePaid", None)
    ELSE Return(None)

\* ------------------------------------------------------------ the writes
\* Faulty variant: the base method returns silently.
ReactionType_write_Silent(self) == Return(None)

ReactionType_write(self) == Raise("NotImplementedError")

ReactionTypeEmoji_write(self) == Return(Some(RawReactionEmoji(self.emoji)))

\* Faulty variant: the wire id is read from the wrong attribute.
ReactionTypeCustomEmoji_write_WrongAttribute(self) ==
    Return(Some(RawReactionCustomEmoji(self.emoji)))

ReactionTypeCustomEmoji_write(self) ==
    Return(Some(RawReactionCustomEmoji(self.custom_emoji_id)))

\* Faulty variant: the paid variant is written as the empty marker.
ReactionTypePaid_write_Empty(self) == Return(Some(RawReactionEmpty))

ReactionTypePaid_write(self) == Return(Some(RawReactionPaid))

\* self.write(client): the method of self's class, the base class's when
\* the class does not override it
write(self) ==
    CASE self.cls = "ReactionTypeEmoji" -> ReactionTypeEmoji_write(self)
      [] self.cls = "ReactionTypeCustomEmoji" -> ReactionTypeCustomEmoji_write(self)
      [] self.cls = "ReactionTypePaid" -> ReactionTypePaid_write(self)
      [] OTHER -> ReactionType_write(self)

\* Faulty variant: the record is suppressed when the type is absent.
ReactionCount_parse_Suppressing(update) ==
    LET type == ReactionType_parse(update.reaction) IN
    IF type.kind = "raise" THEN type
    ELSE IF type.value = None THEN Return(None)
    ELSE Return(Some(ReactionCount_init(type.value, update.count,
                                        update.chosen_order)))

\* --------------------------------------------------- ReactionCount._parse
ReactionCount_parse(update) ==
    LET type == ReactionType_parse(update.reaction) IN
    IF type.kind = "raise" THEN type
    ELSE Return(Some(ReactionCount_init(type.value, update.count,
                                        update.chosen_order)))

\* ---------------------------------------------------------------- inputs
Emoticons == {"like", "fire"}
\* document ids: small ones and the ends of the range TLC's integers have
DocumentIds == (-MaxId .. MaxId) \cup {2147483647, -2147483647}

WireReactions ==
    {RawReactionEmpty, RawReactionPaid, RawReactionOther}
    \cup {RawReactionEmoji(Some(e)) : e \in Emoticons}
    \cup {RawReactionCustomEmoji(Some(d)) : d \in DocumentIds}

Counts == {Some(n) : n \in 0 .. MaxCount}
\* chosen_order is an optional (flagged) field of the wire record
ChosenOrders == {None} \cup {Some(n) : n \in 0 .. MaxOrder}

WireReactionCounts ==
    {RawReactionCount(r, c, o) : r \in WireReactions, c \in Counts,
                                 o \in ChosenOrders}

ConcreteTypes ==
    {ReactionTypePaid_init}
    \cup {ReactionTypeEmoji_init(e) : e \in {None} \cup {Some(x) : x \in Emoticons}}
    \cup {ReactionTypeCustomEmoji_init(d) :
            d \in {None} \cup {Some(x) : x \in DocumentIds}}

\* direct instances of the base class
BaseTypes ==
    {ReactionType_init("ReactionType", t, e, d) :
        t \in {None, Some("emoji"), Some("custom_emoji"), Some("paid")},
        e \in {None, Some("like")},
        d \in {None, Some(1)}}

DomainTypes == ConcreteTypes \cup BaseTypes

\* --------------------------------------------------------------- actions
Init ==
    /\ op = "init"
    /\ arg = None
    /\ result = Return(None)

\* Reaction._parse(client, reaction)
ParseReaction ==
    \E w \in WireReactions :
        /\ op' = "Reaction._parse"
        /\ arg' = w
        /\ result' = Reaction_parse(w)

\* Reaction._parse_count(client, reaction_count)
ParseReactionAggregate ==
    \E rc \in WireReactionCounts :
        /\ op' = "Reaction._parse_count"
        /\ arg' = rc
        /\ result' = Reaction_parse_count(rc)

\* ReactionType._parse(client, update)
ParseReactionType ==
    \E w \in WireReactions :
        /\ op' = "ReactionType._parse"
        /\ arg' = w
        /\ result' = ReactionType_parse(w)

\* ReactionCount._parse(client, update)
ParseReactionCount ==
    \E rc \in WireReactionCounts :
        /\ op' = "ReactionCount._parse"
        /\ arg' = rc
        /\ result' = ReactionCount_parse(rc)

\* t.write(client)
Write ==
    \E t \in DomainTypes :
        /\ op' = "write"
        /\ arg' = t
        /\ result' = write(t)

\* ReactionType._parse(client, t.write(client))
WriteThenParse ==
    \E t \in DomainTypes :
        /\ op' = "write;_parse"
        /\ arg' = t
        /\ result' = LET w == write(t) IN
                     IF w.kind = "raise" THEN w
                     ELSE ReactionType_parse(w.value[1])

\* ReactionType._parse(client, w).write(client)
ParseThenWrite ==
    \E w \in WireReactions :
        /\ op' = "_parse;write"
        /\ arg' = w
        /\ result' = LET t == ReactionType_parse(w) IN
                     IF t.kind = "raise" THEN t
                     ELSE IF t.value = None THEN Raise("AttributeError")
                     ELSE write(t.value[1])

Next ==
    \/ ParseReaction
    \/ ParseReactionAggregate
    \/ ParseReactionType
    \/ ParseReactionCount
    \/ Write
    \/ WriteThenParse
    \/ ParseThenWrite

Spec == Init /\ [][Next]_vars

\* ------------------------------------------------------------ properties
KnownTags == {"ReactionEmoji", "ReactionCustomEmoji", "ReactionPaid"}

ConcreteClasses ==
    {"ReactionTypeEmoji", "ReactionTypeCustomEmoji", "ReactionTypePaid"}

\* The domain variant a wire reaction with a known tag stands for, attribute
\* by attribute.
VariantOf(w) ==
    CASE w.tag = "ReactionEmoji" ->
            [cls |-> "ReactionTypeEmoji", type |-> <<"emoji">>,
             emoji |-> w.emoticon, custom_emoji_id |-> <<>>]
      [] w.tag = "ReactionCustomEmoji" ->
            [cls |-> "ReactionTypeCustomEmoji", type |-> <<"custom_emoji">>,
             emoji |-> <<>>, custom_emoji_id |-> w.document_id]
      [] w.tag = "ReactionPaid" ->
            [cls |-> "ReactionTypePaid", type |-> <<"paid">>,
             emoji |-> <<>>, custom_emoji_id |-> <<>>]

\* VariantOf(w) as an optional value: None for the empty marker and for a
\* tag that is not known.
TypeOf(w) == IF w.tag \in KnownTags THEN <<VariantOf(w)>> ELSE <<>>

\* C1: Reaction._parse_count of an aggregate record whose inner reaction has
\* a known tag returns, without a fault, a Reaction whose type is the matching
\* variant with the wire payload, whose count is the record's count and whose
\* chosen_order is the record's chosen_order.
C1_ParseCountKnownTag ==
    (op = "Reaction._parse_count" /\ arg.reaction.tag \in KnownTags)
        => result = [kind |-> "return", exc |-> "",
                     value |-> <<[cls |-> "Reaction",
                                  type |-> <<VariantOf(arg.reaction)>>,
                                  count |-> arg.count,
                                  chosen_order |-> arg.chosen_order]>>]

\* C2: Reaction._parse_count of an aggregate record whose inner reaction is
\* the empty marker or has an unrecognized tag does not raise: it returns a
\* Reaction with no type and with the record's count and chosen_order.
C2_ParseCountAbsentType ==
    (op = "Reaction._parse_count" /\ arg.reaction.tag \notin KnownTags)
        => result = [kind |-> "return", exc |-> "",
                     value |-> <<[cls |-> "Reaction",
                                  type |-> <<>>,
                                  count |-> arg.count,
                                  chosen_order |-> arg.chosen_order]>>]

\* C3: for every concrete variant v, ReactionType._parse(v.write()) returns a
\* value of v's class with v's type, emoji and custom_emoji_id.
C3_WriteThenParseIsIdentity ==
    (op = "write;_parse" /\ arg.cls \in ConcreteClasses)
        => /\ result.kind = "return"
           /\ result.value = <<arg>>

C3_Witness ==
    /\ op = "write;_parse"
    /\ arg.cls = "ReactionTypeCustomEmoji"
    /\ arg.custom_emoji_id = <<2147483647>>
    /\ result.kind = "return"

\* C4: for every wire value w with a known tag, ReactionType._parse(w).write()
\* returns a wire value with w's tag and w's fields.
C4_ParseThenWriteIsIdentity ==
    (op = "_parse;write" /\ arg.tag \in KnownTags)
        => /\ result.kind = "return"
           /\ result.value = <<arg>>

C4_Witness ==
    /\ op = "_parse;write"
    /\ arg.tag = "ReactionPaid"
    /\ result.kind = "return"

\* C5: Reaction._parse of a wire reaction with a known tag returns a Reaction
\* whose type is the matching variant with the wire payload (the variant
\* ReactionType._parse yields for it) and whose count and chosen_order are
\* absent.
C5_ParseKnownTag ==
    (op = "Reaction._parse" /\ arg.tag \in KnownTags)
        => result = [kind |-> "return", exc |-> "",
                     value |-> <<[cls |-> "Reaction",
                                  type |-> <<VariantOf(arg)>>,
                                  count |-> <<>>,
                                  chosen_order |-> <<>>]>>]

\* C6: ReactionCount._parse returns, for every aggregate record (the empty
\* marker and unrecognized tags included), a ReactionCount with the wire
\* count as total_count, the wire chosen_order, and as type the decoded
\* inner reaction, absent when it decodes to absence.
C6_ReactionCountNeverSuppressed ==
    (op = "ReactionCount._parse")
        => result = [kind |-> "return", exc |-> "",
                     value |-> <<[cls |-> "ReactionCount",
                                  type |-> TypeOf(arg.reaction),
                                  total_count |-> arg.count,
                                  chosen_order |-> arg.chosen_order]>>]

C6_Witness ==
    /\ op = "ReactionCount._parse"
    /\ arg.reaction.tag = "ReactionEmpty"
    /\ result.kind = "return"
    /\ result.value # <<>>
    /\ result.value[1].type = <<>>
    /\ result.value[1].total_count = <<MaxCount>>

\* C7: ReactionType._parse returns no value for the empty marker and for an
\* unrecognized tag, and Reaction._parse returns no value for every tag that
\* is not ReactionEmoji, ReactionCustomEmoji or ReactionPaid; neither raises.
C7_AbsenceIsReturnedNotRaised ==
    (op \in {"ReactionType._parse", "Reaction._parse"}
        /\ arg.tag \notin KnownTags)
        => /\ result.kind = "return"
           /\ result.exc = ""
           /\ result.value = <<>>

C7_Witness ==
    /\ op = "Reaction._parse"
    /\ arg.tag = "ReactionOther"
    /\ result.kind = "return"
    /\ result.value = <<>>

\* C8: write on a direct instance of ReactionType always raises
\* NotImplementedError and returns no wire value; write on an instance of a
\* concrete variant never raises it.
C8_WriteOnBaseRaises ==
    (op = "write")
        => /\ (arg.cls = "ReactionType"
                 => /\ result.kind = "raise"
                    /\ result.exc = "NotImplementedError")
           /\ (arg.cls \in ConcreteClasses
                 => /\ result.kind = "return"
                    /\ result.exc # "NotImplementedError")

C8_Witness ==
    /\ op = "write"
    /\ arg.cls = "ReactionType"
    /\ arg.type = <<"emoji">>
    /\ result.kind = "raise"

\* C9: ReactionType._parse copies the payload unchanged: custom_emoji_id is
\* the wire document_id, emoji is the wire emoticon, and ReactionPaid gives
\* the Paid variant, whose write() gives a ReactionPaid wire value with no
\* fields.
C9_PayloadCopiedUnchanged ==
    /\ (op = "ReactionType._parse" /\ arg.tag = "ReactionCustomEmoji")
         => /\ result.kind = "return"
            /\ result.value # <<>>
            /\ result.value[1].custom_emoji_id = arg.document_id
    /\ (op = "ReactionType._parse" /\ arg.tag = "ReactionEmoji")
         => /\ result.kind = "return"
            /\ result.value # <<>>
            /\ result.value[1].emoji = arg.emoticon
    /\ (op = "ReactionType._parse" /\ arg.tag = "ReactionPaid")
         => /\ result.kind = "return"
            /\ result.value # <<>>
            /\ result.value[1].cls = "ReactionTypePaid"
            /\ result.value[1].type = <<"paid">>
    /\ (op = "_parse;write" /\ arg.tag = "ReactionPaid")
         => /\ result.kind = "return"
            /\ result.value # <<>>
            /\ DOMAIN result.value[1] = {"tag"}
            /\ result.value[1].tag = "ReactionPaid"

C9_Witness ==
    /\ op = "ReactionType._parse"
    /\ arg.tag = "ReactionCustomEmoji"
    /\ arg.document_id = <<2147483647>>
    /\ result.kind = "return"

\* The ReactionType values the last call returned: the result itself for
\* ReactionType._parse, the result's type for the other parsers.
ReturnedTypes ==
    IF result.kind # "return" \/ result.value = <<>> THEN {}
    ELSE IF op = "ReactionType._parse" THEN {result.value[1]}
    ELSE IF op \in {"Reaction._parse", "Reaction._parse_count",
                    "ReactionCount._parse"}
    THEN {result.value[1].type[i] : i \in 1 .. Len(result.value[1].type)}
    ELSE {}

OneVariantActive(t) ==
    \/ /\ t.type = <<"emoji">>
       /\ t.emoji # <<>>
       /\ t.custom_emoji_id = <<>>
    \/ /\ t.type = <<"custom_emoji">>
       /\ t.emoji = <<>>
       /\ t.custom_emoji_id # <<>>
    \/ /\ t.type = <<"paid">>
       /\ t.emoji = <<>>
       /\ t.custom_emoji_id = <<>>

\* C10: every ReactionType value a parser returns, directly or as the type of
\* a Reaction or a ReactionCount, has exactly one variant active: its type is
\* "emoji", "custom_emoji" or "paid" and only that variant's payload is set.
C10_OneVariantActive ==
    \A t \in ReturnedTypes : OneVariantActive(t)

C10_Witness ==
    /\ op = "Reaction._parse_count"
    /\ ReturnedTypes # {}
    /\ \E t \in ReturnedTypes : t.type = <<"custom_emoji">>

====
